---- MODULE Spec2Model ----
(***************************************************************************)
(* Model of the two browser walks of opencode-autopilot:                   *)
(*   src/verify_dashboard.py      run()                                    *)
(*   src/verify_collaborative.py  run()                                    *)
(* Each run() is                                                           *)
(*     with sync_playwright() as p:                                        *)
(*         browser = p.chromium.launch()                                   *)
(*         page = browser.new_page()                                       *)
(*         try:      <fixed list of steps>                                 *)
(*         except Exception as e:  print(..); page.screenshot(error_state) *)
(*         finally:  browser.close()                                       *)
(* The driver calls (launch, new_page, goto, wait_for_selector, click,     *)
(* is_visible, screenshot) may raise; which one raises is the              *)
(* environment's choice.  Runs follow one another in the same working      *)
(* directory, so the filesystem persists from run to run.                  *)
(***************************************************************************)
EXTENDS Naturals, Sequences, FiniteSets

VARIABLES script, run, pc, ip, exc, browser, driver, closes, diags,
          console, log, written, fs, env, result, prev

vars == <<script, run, pc, ip, exc, browser, driver, closes, diags,
          console, log, written, fs, env, result, prev>>

\* Number of successive invocations of run() that are explored.
MaxRuns == 2

Scripts == {"dashboard", "collaborative"}

----------------------------------------------------------------------------
\* The step tables: one record per statement of the try body, in source order.

P(line) == [op |-> "print", arg |-> line, yes |-> "", no |-> ""]
G(url) == [op |-> "goto", arg |-> url, yes |-> "", no |-> ""]
W(sel) == [op |-> "wait", arg |-> sel, yes |-> "", no |-> ""]
Z(secs) == [op |-> "sleep", arg |-> secs, yes |-> "", no |-> ""]
S(path) == [op |-> "shot", arg |-> path, yes |-> "", no |-> ""]
K(sel) == [op |-> "click", arg |-> sel, yes |-> "", no |-> ""]

\* if page.is_visible(sel): print(yes) else: print(no)
\* A probe without an else branch has no = "" and prints nothing when false.
Q(sel, yes, no) == [op |-> "probe", arg |-> sel, yes |-> yes, no |-> no]

Url == "http://localhost:3847/dashboard"

DashboardSteps ==
  << P("Navigating to Dashboard..."),
     G(Url),
     W(".app"),
     Z("2"),
     S("dashboard_debug.png"),
     P("Debug screenshot saved."),
     Q(".sessions-grid", "Sessions grid is visible.", "Sessions grid is NOT visible."),
     Q("No sessions active", "Empty state text found.", ""),
     S("dashboard_tab.png"),
     P("Dashboard tab screenshot saved."),
     P("Navigating to Debate History..."),
     K(".tab:text('Debate History')"),
     Z("1"),
     S("debate_history_tab.png"),
     P("Debate History tab screenshot saved."),
     P("Navigating to Supervisors..."),
     K(".tab:text('Supervisors')"),
     Z("1"),
     S("supervisors_tab.png"),
     P("Supervisors tab screenshot saved."),
     P("Opening Settings Modal..."),
     K("button:has-text('Settings')"),
     Z("1"),
     S("settings_modal.png"),
     P("Settings modal screenshot saved."),
     K(".modal-close"),
     P("Opening Help Modal..."),
     K("button:has-text('Help')"),
     Z("1"),
     S("help_modal.png"),
     P("Help modal screenshot saved."),
     K(".modal-close") >>

CollaborativeSteps ==
  << P("Navigating to Dashboard..."),
     G(Url),
     W(".app"),
     P("Navigating to Collaborative Debates..."),
     K(".tab:text('Collaborative')"),
     W("#collaborative-debates-table"),
     Z("1"),
     S("collaborative_tab.png"),
     P("Collaborative tab screenshot saved."),
     P("Opening Create Debate Modal..."),
     K("button:has-text('Create Debate')"),
     W("#create-debate-modal.show"),
     Z("0.5"),
     S("create_debate_modal.png"),
     P("Create debate modal screenshot saved."),
     K(".modal-close"),
     P("Navigating to Simulator..."),
     K(".tab:text('Simulator')"),
     W("#simulations-table"),
     Z("1"),
     S("simulator_tab.png"),
     P("Simulator tab screenshot saved.") >>

StepsDropLast(s) ==
  IF s = "dashboard" THEN SubSeq(DashboardSteps, 1, Len(DashboardSteps) - 3)
  ELSE SubSeq(CollaborativeSteps, 1, Len(CollaborativeSteps) - 2)

Steps(s) == IF s = "dashboard" THEN DashboardSteps ELSE CollaborativeSteps

\* Path of the screenshot taken by the except handler.
ErrorShotShared(s) == "error_state.png"

ErrorShot(s) == IF s = "dashboard" THEN "error_state.png" ELSE "error_state_collab.png"

----------------------------------------------------------------------------
\* Control flow.

\* Straight-line code: the statement after statement i, whatever a probe returned.
NextIpBranch(s, i, res) ==
  IF Steps(s)[i].op = "probe" /\ Steps(s)[i].no # "" /\ ~res THEN i + 3 ELSE i + 1

NextIpSkipSleep(s, i, res) ==
  IF i < Len(Steps(s)) /\ Steps(s)[i + 1].op = "sleep" THEN i + 3 ELSE i + 1

NextIp(s, i, res) == i + 1

\* Where an exception raised at position p is taken by the with/try/except/finally
\* structure: the try body is covered by the handler, the handler by the finally
\* clause only, launch and new_page by neither.
RaiseTargetNoHandler(p) ==
  IF p = "walk" THEN "finally" ELSE IF p = "except" THEN "finally" ELSE "exit"

RaiseTargetRetry(p) ==
  IF p = "walk" THEN "walk" ELSE IF p = "except" THEN "finally" ELSE "exit"

RaiseTargetWideTry(p) ==
  IF p = "walk" THEN "except" ELSE IF p = "except" THEN "finally" ELSE "except"

RaiseTarget(p) ==
  IF p = "walk" THEN "except" ELSE IF p = "except" THEN "finally" ELSE "exit"

\* page.screenshot(path=...) writes the file, replacing one of the same name.
WriteFileNoClobber(files, path) ==
  IF path \in files THEN files \cup {path \o ".1"} ELSE files \cup {path}

WriteFile(files, path) == files \cup {path}

----------------------------------------------------------------------------
\* State.
\*   script   which of the two files is being executed
\*   pc, ip   position in run(): launch, new_page, statement ip of the try
\*            body (walk), the except handler, the finally clause, with exit
\*   exc      the exception in flight ("none" when there is none)
\*   browser, driver, closes, diags   the browser handle, the playwright
\*            driver, and how often browser.close() and the handler's
\*            screenshot were called in this run
\*   console  lines printed by this run
\*   written  files written by this run; fs: files in the working directory
\*   result   how run() ended
\* History: log is the sequence of driver calls of this run, env the outcomes
\* the environment produced for them, prev the record of the previous run.

Unknown == "?"

FreshEnv == [launch |-> Unknown, page |-> Unknown, failAt |-> 0,
             grid |-> Unknown, empty |-> Unknown, diag |-> Unknown]

NoRun == [script |-> "none", env |-> FreshEnv, log |-> << >>, written |-> {},
          fs |-> {}, console |-> << >>, result |-> "none"]

Entry(where, op, arg, ok) == [at |-> where, op |-> op, arg |-> arg, ok |-> ok]

Init ==
  /\ script \in Scripts
  /\ run = 0
  /\ pc = "idle"
  /\ ip = 0
  /\ exc = "none"
  /\ browser = "none"
  /\ driver = "off"
  /\ closes = 0
  /\ diags = 0
  /\ console = << >>
  /\ log = << >>
  /\ written = {}
  /\ fs = {}
  /\ env = FreshEnv
  /\ result = "none"
  /\ prev = NoRun

----------------------------------------------------------------------------
\* Actions.

Cur == Steps(script)[ip]

AtStep(kind) == pc = "walk" /\ ip \in 1..Len(Steps(script)) /\ Cur.op = kind

\* Control after statement ip of the try body completed: the next statement,
\* or the finally clause once the body is exhausted.
Advance(res) ==
  LET n == NextIp(script, ip, res)
  IN  IF n > Len(Steps(script))
      THEN pc' = "finally" /\ ip' = ip
      ELSE pc' = "walk" /\ ip' = n

\* Statement ip of the try body raised.
Fail ==
  /\ pc' = RaiseTarget("walk")
  /\ ip' = ip
  /\ exc' = Cur.op
  /\ env' = [env EXCEPT !.failAt = ip]

\* run() is called: the with statement starts the driver.
StartRun ==
  /\ pc \in {"idle", "ended"}
  /\ run < MaxRuns
  /\ run' = run + 1
  /\ prev' = IF pc = "idle" THEN NoRun
             ELSE [script |-> script, env |-> env, log |-> log, written |-> written,
                   fs |-> fs, console |-> console, result |-> result]
  /\ pc' = "launch"
  /\ ip' = 0
  /\ exc' = "none"
  /\ browser' = "none"
  /\ driver' = "on"
  /\ closes' = 0
  /\ diags' = 0
  /\ console' = << >>
  /\ log' = << >>
  /\ written' = {}
  /\ env' = FreshEnv
  /\ result' = "none"
  /\ UNCHANGED <<script, fs>>

\* browser = p.chromium.launch()
Launch(ok) ==
  /\ pc = "launch"
  /\ log' = Append(log, Entry("launch", "launch", "chromium", ok))
  /\ env' = [env EXCEPT !.launch = IF ok THEN "ok" ELSE "fail"]
  /\ IF ok
     THEN pc' = "new_page" /\ browser' = "open" /\ exc' = exc
     ELSE pc' = RaiseTarget("launch") /\ browser' = browser /\ exc' = "launch"
  /\ UNCHANGED <<script, run, ip, driver, closes, diags, console, written, fs, result, prev>>

\* page = browser.new_page()
NewPage(ok) ==
  /\ pc = "new_page"
  /\ log' = Append(log, Entry("launch", "new_page", "page", ok))
  /\ env' = [env EXCEPT !.page = IF ok THEN "ok" ELSE "fail"]
  /\ IF ok
     THEN pc' = "walk" /\ ip' = 1 /\ exc' = exc
     ELSE pc' = RaiseTarget("new_page") /\ ip' = ip /\ exc' = "new_page"
  /\ UNCHANGED <<script, run, browser, driver, closes, diags, console, written, fs, result, prev>>

\* print(line)
PrintLine ==
  /\ AtStep("print")
  /\ console' = Append(console, Cur.arg)
  /\ log' = Append(log, Entry("walk", "print", Cur.arg, TRUE))
  /\ Advance(TRUE)
  /\ UNCHANGED <<script, run, exc, browser, driver, closes, diags, written, fs, env, result, prev>>

\* time.sleep(secs)
Sleep ==
  /\ AtStep("sleep")
  /\ log' = Append(log, Entry("walk", "sleep", Cur.arg, TRUE))
  /\ Advance(TRUE)
  /\ UNCHANGED <<script, run, exc, browser, driver, closes, diags, console, written, fs, env,
                 result, prev>>

\* page.goto(url), page.wait_for_selector(sel), page.click(sel)
Drive(kind, ok) ==
  /\ AtStep(kind)
  /\ log' = Append(log, Entry("walk", kind, Cur.arg, ok))
  /\ IF ok THEN Advance(TRUE) /\ UNCHANGED <<exc, env>> ELSE Fail
  /\ UNCHANGED <<script, run, browser, driver, closes, diags, console, written, fs, result, prev>>

Goto(ok) == Drive("goto", ok)

WaitForSelector(ok) == Drive("wait", ok)

Click(ok) == Drive("click", ok)

\* page.screenshot(path=...) in the try body
Screenshot(ok) ==
  /\ AtStep("shot")
  /\ log' = Append(log, Entry("walk", "shot", Cur.arg, ok))
  /\ IF ok
     THEN /\ written' = WriteFile(written, Cur.arg)
          /\ fs' = WriteFile(fs, Cur.arg)
          /\ Advance(TRUE)
          /\ UNCHANGED <<exc, env>>
     ELSE /\ Fail
          /\ UNCHANGED <<written, fs>>
  /\ UNCHANGED <<script, run, browser, driver, closes, diags, console, result, prev>>

\* if page.is_visible(...): print(...) [else: print(...)]
\* ok = FALSE: the probe raised; otherwise res is the boolean it returned.
Probe(ok, res) ==
  /\ AtStep("probe")
  /\ log' = Append(log, Entry("walk", "probe", Cur.arg, ok))
  /\ IF ok
     THEN /\ console' = IF res THEN Append(console, Cur.yes)
                        ELSE IF Cur.no # "" THEN Append(console, Cur.no)
                        ELSE console
          /\ env' = IF Cur.no # "" THEN [env EXCEPT !.grid = IF res THEN "T" ELSE "F"]
                    ELSE [env EXCEPT !.empty = IF res THEN "T" ELSE "F"]
          /\ exc' = exc
          /\ Advance(res)
     ELSE /\ Fail
          /\ console' = console
  /\ UNCHANGED <<script, run, browser, driver, closes, diags, written, fs, result, prev>>

\* except Exception as e: print(f"Error: {e}"); page.screenshot(path=error_state)
Except(ok) ==
  /\ pc = "except"
  /\ console' = Append(console, "Error: " \o exc)
  /\ diags' = diags + 1
  /\ log' = Append(log, Entry("except", "shot", ErrorShot(script), ok))
  /\ env' = [env EXCEPT !.diag = IF ok THEN "ok" ELSE "fail"]
  /\ IF ok
     THEN /\ written' = WriteFile(written, ErrorShot(script))
          /\ fs' = WriteFile(fs, ErrorShot(script))
          /\ exc' = "none"
          /\ pc' = "finally"
     ELSE /\ UNCHANGED <<written, fs>>
          /\ exc' = "diagnostic"
          /\ pc' = RaiseTarget("except")
  /\ UNCHANGED <<script, run, ip, browser, driver, closes, result, prev>>

\* finally: browser.close()
Finally ==
  /\ pc = "finally"
  /\ browser' = "closed"
  /\ closes' = closes + 1
  /\ log' = Append(log, Entry("finally", "close", "browser", TRUE))
  /\ pc' = "exit"
  /\ UNCHANGED <<script, run, ip, exc, driver, diags, console, written, fs, env, result, prev>>

\* Leaving the with block stops the driver; run() returns, or the pending
\* exception leaves run().
ExitWith ==
  /\ pc = "exit"
  /\ driver' = "off"
  /\ result' = IF exc = "none" THEN "returned" ELSE "raised"
  /\ pc' = "ended"
  /\ UNCHANGED <<script, run, ip, exc, browser, closes, diags, console, log, written, fs, env,
                 prev>>

Next ==
  \/ StartRun
  \/ \E ok \in BOOLEAN : Launch(ok)
  \/ \E ok \in BOOLEAN : NewPage(ok)
  \/ PrintLine
  \/ Sleep
  \/ \E ok \in BOOLEAN : Goto(ok)
  \/ \E ok \in BOOLEAN : WaitForSelector(ok)
  \/ \E ok \in BOOLEAN : Click(ok)
  \/ \E ok \in BOOLEAN : Screenshot(ok)
  \/ \E ok \in BOOLEAN, res \in BOOLEAN : Probe(ok, res)
  \/ \E ok \in BOOLEAN : Except(ok)
  \/ Finally
  \/ ExitWith

Spec == Init /\ [][Next]_vars

TypeOK ==
  /\ script \in Scripts
  /\ run \in 0..MaxRuns
  /\ pc \in {"idle", "launch", "new_page", "walk", "except", "finally", "exit", "ended"}
  /\ browser \in {"none", "open", "closed"}
  /\ driver \in {"on", "off"}
  /\ result \in {"none", "returned", "raised"}

----------------------------------------------------------------------------
\* Properties.

\* C1: in every run whose launch succeeded, browser.close() has been called
\* exactly once when run() ends (never zero times, never twice), whichever
\* step failed, a failure of new_page included.
C1_ClosedExactlyOnce ==
  /\ closes <= 1
  /\ (pc = "ended" /\ env.launch = "ok") => closes = 1

\* C2: once a step of the try body has raised, no later step of the body is
\* executed, the diagnostic screenshot is attempted exactly once, directly
\* after the failing step, and browser.close() directly follows that attempt.
C2_AbortDiagnoseClose ==
  LET failed == {i \in DOMAIN log : log[i].at = "walk" /\ ~log[i].ok}
      diag == {i \in DOMAIN log : log[i].at = "except"}
      closed == {i \in DOMAIN log : log[i].op = "close"}
      errName == IF script = "dashboard" THEN "error_state.png" ELSE "error_state_collab.png"
  IN  failed # {} =>
        \E k \in failed :
          /\ failed = {k}
          /\ \A j \in DOMAIN log : j > k => log[j].at # "walk"
          /\ pc # "walk"
          /\ diag \subseteq {k + 1}
          /\ diags = Cardinality(diag)
          /\ \A d \in diag : log[d].op = "shot" /\ log[d].arg = errName
          /\ pc = "except" => diag = {} /\ closed = {}
          /\ pc = "finally" => diag = {k + 1} /\ closed = {}
          /\ pc \in {"exit", "ended"} => diag = {k + 1} /\ closed = {k + 2}

C2_Witness ==
  /\ pc = "ended"
  /\ env.failAt # 0
  /\ diags = 1
  /\ closes = 1
  /\ Len(log) = env.failAt + 4

\* C3 as stated: when a required selector wait times out, the run ends having
\* produced its error_state*.png and none of the regular screenshots that
\* follow the wait.
C3_Original ==
  LET k == env.failAt
      errName == IF script = "dashboard" THEN "error_state.png" ELSE "error_state_collab.png"
      required == {".app", "#collaborative-debates-table", "#create-debate-modal.show",
                   "#simulations-table"}
      after == {Steps(script)[i].arg : i \in {j \in k..Len(Steps(script)) :
                                               Steps(script)[j].op = "shot"}}
  IN  (pc = "ended" /\ k # 0 /\ Steps(script)[k].op = "wait" /\ Steps(script)[k].arg \in required)
        => (errName \in written /\ written \cap after = {})

\* C3 amended: when a required selector wait times out, the walk stops there,
\* the diagnostic screenshot is attempted exactly once before the run ends,
\* error_state*.png is produced exactly when that attempt succeeds, and none
\* of the regular screenshots that follow the wait is produced.
C3_WaitTimeout ==
  LET k == env.failAt
      errName == IF script = "dashboard" THEN "error_state.png" ELSE "error_state_collab.png"
      required == {".app", "#collaborative-debates-table", "#create-debate-modal.show",
                   "#simulations-table"}
      after == {Steps(script)[i].arg : i \in {j \in k..Len(Steps(script)) :
                                               Steps(script)[j].op = "shot"}}
  IN  (k # 0 /\ Steps(script)[k].op = "wait" /\ Steps(script)[k].arg \in required)
        => /\ pc # "walk"
           /\ written \cap after = {}
           /\ pc = "ended" =>
                /\ diags = 1
                /\ (errName \in written) = (env.diag = "ok")
                /\ env.diag = "ok" => errName \in fs

C3_Witness ==
  /\ pc = "ended"
  /\ script = "collaborative"
  /\ env.failAt = 12
  /\ Steps(script)[env.failAt].arg = "#create-debate-modal.show"
  /\ written = {"collaborative_tab.png", "error_state_collab.png"}

\* C4: a run in which nothing fails writes exactly the script's enumerated
\* screenshots, and no error_state*.png.
C4_SuccessArtifacts ==
  (pc = "ended" /\ env.launch = "ok" /\ env.page = "ok" /\ env.failAt = 0)
    => written = IF script = "dashboard"
                 THEN {"dashboard_debug.png", "dashboard_tab.png", "debate_history_tab.png",
                       "supervisors_tab.png", "settings_modal.png", "help_modal.png"}
                 ELSE {"collaborative_tab.png", "create_debate_modal.png", "simulator_tab.png"}

C4_Witness ==
  /\ pc = "ended"
  /\ script = "dashboard"
  /\ env.page = "ok"
  /\ env.failAt = 0
  /\ result = "returned"
  /\ Cardinality(written) = 6

\* C5: whichever step of the walk fails, run() returns normally, after
\* browser.close() was called: no exception leaves run().
C5_FailureNeverSurfaces ==
  (pc = "ended" /\ env.failAt # 0) => (result = "returned" /\ closes = 1)

\* C6 as stated: when the initial navigation fails, no regular screenshot is
\* taken and the run writes error_state*.png and nothing else.
C6_Original ==
  LET k == env.failAt
      errName == IF script = "dashboard" THEN "error_state.png" ELSE "error_state_collab.png"
  IN  (pc = "ended" /\ k # 0 /\ Steps(script)[k].op = "goto") => written = {errName}

\* C6 amended: when the initial navigation fails, no regular screenshot is
\* attempted, the run writes no artifact other than error_state*.png, and
\* it writes that one exactly when the diagnostic screenshot succeeds.
C6_Unreachable ==
  LET k == env.failAt
      errName == IF script = "dashboard" THEN "error_state.png" ELSE "error_state_collab.png"
  IN  (k # 0 /\ Steps(script)[k].op = "goto")
        => /\ \A i \in DOMAIN log : ~(log[i].at = "walk" /\ log[i].op = "shot")
           /\ written \subseteq {errName}
           /\ pc = "ended" => (written = {errName}) = (env.diag = "ok")

C6_Witness ==
  /\ pc = "ended"
  /\ script = "collaborative"
  /\ env.failAt = 2
  /\ env.diag = "ok"
  /\ written = {"error_state_collab.png"}
  /\ result = "returned"

\* C7: a run that repeats the previous run of the same script, every step
\* having the same outcome, leaves the same set of file names on the
\* filesystem as the previous run left.
C7_Idempotent ==
  (pc = "ended" /\ run >= 2 /\ prev.script = script /\ prev.env = env) => fs = prev.fs

C7_Witness ==
  /\ pc = "ended"
  /\ run >= 2
  /\ prev.script = script
  /\ prev.env = env
  /\ Cardinality(written) >= 2
  /\ fs = written

\* C8: when launch fails, no step of the walk is executed, no diagnostic
\* screenshot is attempted, nothing is written, browser.close() is not
\* called, and the exception leaves run().
C8_LaunchFatal ==
  env.launch = "fail"
    => /\ pc \in {"exit", "ended"}
       /\ \A i \in DOMAIN log : log[i].op = "launch"
       /\ diags = 0
       /\ closes = 0
       /\ written = {}
       /\ console = << >>
       /\ exc = "launch"
       /\ pc = "ended" => result = "raised"

C8_Witness ==
  /\ pc = "ended"
  /\ env.launch = "fail"
  /\ result = "raised"
  /\ Len(log) = 1

\* C9: two runs of verify_dashboard whose outcomes differ only in what the
\* two visibility probes return execute the same navigate/click/screenshot
\* steps with the same results and write the same artifacts; their consoles
\* agree on every line other than the probes' own.
C9_ProbesDoNotSteer ==
  LET probeLines == {"Sessions grid is visible.", "Sessions grid is NOT visible.",
                     "Empty state text found."}
      IsAct(e) == e.op \in {"goto", "click", "shot"}
      NotProbeLine(l) == l \notin probeLines
      Blind(e) == [e EXCEPT !.grid = "?", !.empty = "?"]
  IN  (pc = "ended" /\ run >= 2 /\ script = "dashboard" /\ prev.script = script
         /\ Blind(prev.env) = Blind(env))
        => /\ SelectSeq(log, IsAct) = SelectSeq(prev.log, IsAct)
           /\ written = prev.written
           /\ result = prev.result
           /\ SelectSeq(console, NotProbeLine) = SelectSeq(prev.console, NotProbeLine)

C9_Witness ==
  /\ pc = "ended"
  /\ run >= 2
  /\ script = "dashboard"
  /\ prev.env.failAt = 0
  /\ env.failAt = 0
  /\ prev.env.grid = "F"
  /\ env.grid = "T"
  /\ prev.env.empty = "T"
  /\ env.empty = "F"
  /\ console # prev.console
  /\ Cardinality(written) = 6

\* C10: at every point of a run the regular screenshots written so far are,
\* in the order written, a prefix of the script's fixed screenshot order, and
\* no regular screenshot is attempted after the diagnostic screenshot or
\* after browser.close().
C10_ScreenshotPrefix ==
  LET order == IF script = "dashboard"
               THEN <<"dashboard_debug.png", "dashboard_tab.png", "debate_history_tab.png",
                      "supervisors_tab.png", "settings_modal.png", "help_modal.png">>
               ELSE <<"collaborative_tab.png", "create_debate_modal.png", "simulator_tab.png">>
      IsRegular(e) == e.at = "walk" /\ e.op = "shot" /\ e.ok
      taken == SelectSeq(log, IsRegular)
      errs == {"error_state.png", "error_state_collab.png"}
  IN  /\ Len(taken) <= Len(order)
      /\ \A i \in DOMAIN taken : taken[i].arg = order[i]
      /\ written \ errs = {order[i] : i \in DOMAIN taken}
      /\ \A i, j \in DOMAIN log :
           (i < j /\ (log[i].at = "except" \/ log[i].op = "close"))
             => ~(log[j].at = "walk" /\ log[j].op = "shot")

C10_Witness ==
  /\ pc = "ended"
  /\ script = "dashboard"
  /\ written = {"dashboard_debug.png", "dashboard_tab.png", "debate_history_tab.png",
                "error_state.png"}
  /\ closes = 1
====
